---- MODULE Spec2Model ----
(***************************************************************************)
(* Model of _posts/_artifacts/linking/custom_start.c: a process entry      *)
(* point (_start) that calls main and ends the process with a raw exit     *)
(* system call issued by call_exit (System V AMD-64 ABI, Linux).           *)
(*                                                                         *)
(* A 64-bit register is a sequence of four 16-bit words, least significant *)
(* word first, so that sign/zero extension and the kernel's truncation of  *)
(* the exit status operate on bit patterns, not on mathematical integers.  *)
(*                                                                         *)
(* call_exit is modelled as an out-of-line function entered by a call, so  *)
(* that its parameters are in %rdi and %rsi when the asm statement runs,   *)
(* as the comment above call_exit in the source assumes.                   *)
(***************************************************************************)
EXTENDS Integers, Sequences, FiniteSets, TLC

VARIABLES pc,           \* position of the single thread of control
          rdi,          \* first integer argument register
          rsi,          \* second integer argument register
          rax,          \* return value / syscall number register
          mainReturned, \* TRUE once main has returned
          mainRet,      \* the int main returned (meaningful if mainReturned)
          argCode,      \* call_exit's parameter `code` at its entry
          argNum,       \* call_exit's parameter `exit_syscall_num` at entry
          entryRdi,     \* %rdi at entry of call_exit
          entryRsi,     \* %rsi at entry of call_exit
          exitStatus,   \* status the parent observes (meaningful if dead)
          events        \* log of the steps taken so far

vars == <<pc, rdi, rsi, rax, mainReturned, mainRet, argCode, argNum,
          entryRdi, entryRsi, exitStatus, events>>

regs == <<rdi, rsi, rax>>

-----------------------------------------------------------------------------
(* Bounds *)

MaxRet == 64

\* range of the C type int (32 bits, two's complement)
IntMax == (2^30 - 1) + 2^30
IntMin == -(2^30) - 2^30

\* values main may return: a range around 0 and the edges of 8, 16, 32 bits
MainRets == (-MaxRet..MaxRet) \cup
            {255, 256, 257, 298, -255, -256, -257, 65535, 65536, -65536,
             IntMax, IntMin}

\* arguments call_exit is called with when checked on its own
Codes == {0, 1, 42, 60, 255, 256, -1, -256, IntMax, IntMin}
Nums  == {0, 1, 42, 60, 231, -1}

-----------------------------------------------------------------------------
(* Registers and integer encodings *)

Word == 2^16

Zero64 == <<0, 0, 0, 0>>
Ones64 == <<65535, 65535, 65535, 65535>>

\* contents of a register whose value the ABI leaves unspecified
Garbage == {Zero64, Ones64}

\* upper 32 bits of a register carrying a 32-bit value, unspecified by the ABI
GarbageHi == {<<0, 0>>, <<65535, 65535>>}

\* two's-complement 32-bit pattern of a C int, as two 16-bit words
Enc32(v) == <<v % Word, (v \div Word) % Word>>

\* the C int a 32-bit pattern stands for
Dec32(w) == IF w[2] >= 32768 THEN (w[2] - Word) * Word + w[1]
                             ELSE w[2] * Word + w[1]

Lo32(r) == <<r[1], r[2]>>
Hi32(r) == <<r[3], r[4]>>

\* movl src, %e.. : a 32-bit move clears the upper half of the destination
MovL(w) == <<w[1], w[2], 0, 0>>

\* movq src, %r.. : a 64-bit move copies the whole register
MovQ(r) == r

SYS_exit == 60

Log(e) == events' = Append(events, e)

Occ(e) == Cardinality({i \in 1..Len(events) : events[i] = e})

-----------------------------------------------------------------------------
(* The whole program: loader -> _start -> main -> call_exit -> kernel *)

Init ==
    /\ pc = "loaded"
    /\ rdi \in Garbage /\ rsi \in Garbage /\ rax \in Garbage
    /\ mainReturned = FALSE /\ mainRet = 0
    /\ argCode = 0 /\ argNum = 0
    /\ entryRdi = Zero64 /\ entryRsi = Zero64
    /\ exitStatus = 0
    /\ events = << >>

\* the loader transfers control to the entry symbol
EnterStart ==
    /\ pc = "loaded"
    /\ pc' = "start"
    /\ Log("enter")
    /\ UNCHANGED <<regs, mainReturned, mainRet, argCode, argNum,
                   entryRdi, entryRsi, exitStatus>>

\* _start evaluates the argument main(): call main
CallMain_skip ==
    /\ pc = "start"
    /\ pc' = "args"
    /\ rax' = Zero64
    /\ Log("skip_main")
    /\ UNCHANGED <<rdi, rsi, mainReturned, mainRet, argCode, argNum,
                   entryRdi, entryRsi, exitStatus>>

CallMain ==
    /\ pc = "start"
    /\ pc' = "main"
    /\ Log("call_main")
    /\ UNCHANGED <<regs, mainReturned, mainRet, argCode, argNum,
                   entryRdi, entryRsi, exitStatus>>

\* main returns v in %eax; the upper half of %rax and the caller-saved
\* registers %rdi, %rsi hold whatever main left there
MainReturn ==
    /\ pc = "main"
    /\ \E v \in MainRets, hi \in GarbageHi, g1 \in Garbage, g2 \in Garbage :
          /\ rax' = Enc32(v) \o hi
          /\ rdi' = g1
          /\ rsi' = g2
          /\ mainRet' = v
    /\ mainReturned' = TRUE
    /\ pc' = "args"
    /\ Log("main_ret")
    /\ UNCHANGED <<argCode, argNum, entryRdi, entryRsi, exitStatus>>

\* main never returns (it loops or faults): _start is never resumed
MainDiverge ==
    /\ pc = "main"
    /\ pc' = "hung"
    /\ UNCHANGED <<regs, mainReturned, mainRet, argCode, argNum,
                   entryRdi, entryRsi, exitStatus, events>>

\* _start passes (main(), SYS_exit) and calls call_exit:
\*   movl %eax, %edi ; movl $SYS_exit, %esi ; call call_exit
PassArgs_dropResult ==
    /\ pc = "args"
    /\ rdi' = MovL(Enc32(0))
    /\ rsi' = MovL(Enc32(SYS_exit))
    /\ argCode' = 0
    /\ argNum' = SYS_exit
    /\ entryRdi' = rdi' /\ entryRsi' = rsi'
    /\ pc' = "call_exit"
    /\ Log("pass_args")
    /\ UNCHANGED <<rax, mainReturned, mainRet, exitStatus>>

PassArgs_swapped ==
    /\ pc = "args"
    /\ rdi' = MovL(Enc32(SYS_exit))
    /\ rsi' = MovL(Lo32(rax))
    /\ argCode' = SYS_exit
    /\ argNum' = Dec32(Lo32(rax))
    /\ entryRdi' = rdi' /\ entryRsi' = rsi'
    /\ pc' = "call_exit"
    /\ Log("pass_args")
    /\ UNCHANGED <<rax, mainReturned, mainRet, exitStatus>>

PassArgs ==
    /\ pc = "args"
    /\ rdi' = MovL(Lo32(rax))
    /\ rsi' = MovL(Enc32(SYS_exit))
    /\ argCode' = Dec32(Lo32(rax))
    /\ argNum' = SYS_exit
    /\ entryRdi' = rdi' /\ entryRsi' = rsi'
    /\ pc' = "call_exit"
    /\ Log("pass_args")
    /\ UNCHANGED <<rax, mainReturned, mainRet, exitStatus>>

\* call_exit: mov %rsi, %rax
CopySyscallNum_fromRdi ==
    /\ pc = "call_exit"
    /\ rax' = MovQ(rdi)
    /\ pc' = "syscall"
    /\ Log("copy_num")
    /\ UNCHANGED <<rdi, rsi, mainReturned, mainRet, argCode, argNum,
                   entryRdi, entryRsi, exitStatus>>

CopySyscallNum_clobberRdi ==
    /\ pc = "call_exit"
    /\ rax' = MovQ(rsi)
    /\ rdi' = MovQ(rsi)
    /\ pc' = "syscall"
    /\ Log("copy_num")
    /\ UNCHANGED <<rsi, mainReturned, mainRet, argCode, argNum,
                   entryRdi, entryRsi, exitStatus>>

CopySyscallNum ==
    /\ pc = "call_exit"
    /\ rax' = MovQ(rsi)
    /\ pc' = "syscall"
    /\ Log("copy_num")
    /\ UNCHANGED <<rdi, rsi, mainReturned, mainRet, argCode, argNum,
                   entryRdi, entryRsi, exitStatus>>

\* call_exit: syscall  (the trap into the kernel)
Trap_missing ==
    /\ pc = "syscall"
    /\ pc' = "fell_off"
    /\ Log("return_from_call_exit")
    /\ UNCHANGED <<regs, mainReturned, mainRet, argCode, argNum,
                   entryRdi, entryRsi, exitStatus>>

Trap ==
    /\ pc = "syscall"
    /\ pc' = "kernel"
    /\ Log("trap")
    /\ UNCHANGED <<regs, mainReturned, mainRet, argCode, argNum,
                   entryRdi, entryRsi, exitStatus>>

\* the kernel services the request selected by %rax.  exit(int error_code)
\* takes the low 32 bits of %rdi and reports error_code & 0xff; it destroys
\* the process.  Any other selector is serviced (or rejected) and control
\* returns to the instruction after the trap: call_exit returns, _start
\* returns to no caller.
KernelService ==
    /\ pc = "kernel"
    /\ IF rax = MovL(Enc32(SYS_exit))
         THEN /\ exitStatus' = Lo32(rdi)[1] % 256
              /\ pc' = "dead"
              /\ Log("death")
         ELSE /\ pc' = "fell_off"
              /\ Log("return_past_trap")
              /\ UNCHANGED exitStatus
    /\ UNCHANGED <<regs, mainReturned, mainRet, argCode, argNum,
                   entryRdi, entryRsi>>

Next ==
    \/ EnterStart
    \/ CallMain
    \/ MainReturn
    \/ MainDiverge
    \/ PassArgs
    \/ CopySyscallNum
    \/ Trap
    \/ KernelService

Spec == Init /\ [][Next]_vars

\* the single thread of control does not stop by itself: every instruction
\* of _start and call_exit, and the kernel's servicing of a trap, is taken
Thread == EnterStart \/ CallMain \/ PassArgs \/ CopySyscallNum \/ Trap
          \/ KernelService

FairSpec == Spec /\ WF_vars(Thread)

-----------------------------------------------------------------------------
(* call_exit on its own, for every pair of arguments *)

InitCallExit ==
    /\ pc = "call_exit"
    /\ \E c \in Codes, n \in Nums, h1 \in GarbageHi, h2 \in GarbageHi :
          /\ rdi = Enc32(c) \o h1
          /\ rsi = Enc32(n) \o h2
          /\ argCode = c
          /\ argNum = n
    /\ entryRdi = rdi /\ entryRsi = rsi
    /\ rax \in Garbage
    /\ mainReturned = FALSE /\ mainRet = 0
    /\ exitStatus = 0
    /\ events = << >>

NextCallExit ==
    \/ CopySyscallNum
    \/ Trap
    \/ KernelService

SpecCallExit == InitCallExit /\ [][NextCallExit]_vars

-----------------------------------------------------------------------------
(* Properties *)

Canon == <<"enter", "call_main", "main_ret", "pass_args", "copy_num",
           "trap", "death">>

IsPrefix(s, t) == Len(s) <= Len(t) /\ \A i \in 1..Len(s) : s[i] = t[i]

Trapped == Occ("trap") >= 1

\* C1: when the process has died, the observed exit status is the value
\* main returned reduced modulo 256: 0 gives 0, 42 gives 42, -1 gives 255.
C1_ExitStatusIsRetMod256 ==
    pc = "dead" =>
        /\ mainReturned
        /\ exitStatus = mainRet % 256
        /\ (mainRet = 0 => exitStatus = 0)
        /\ (mainRet = 42 => exitStatus = 42)
        /\ (mainRet = -1 => exitStatus = 255)

C1_Witness == pc = "dead" /\ mainRet = -1 /\ exitStatus = 255

\* C2: at most one trap is ever issued; whenever main returns exactly one
\* trap is eventually issued; the process ends only through that trap (it
\* is dead only after exactly one trap and never runs off the end of
\* _start).
C2_ExactlyOneTermination ==
    /\ [](Occ("trap") <= 1 /\ Occ("death") <= 1)
    /\ [](pc = "dead" => Occ("trap") = 1)
    /\ [](pc # "fell_off")
    /\ (mainReturned ~> (Occ("trap") = 1))

C2_Witness == pc = "dead" /\ Occ("trap") = 1 /\ Occ("death") = 1

\* C3: the steps taken so far are always an initial part of the sequence
\* enter _start, call main, main returns, pass the arguments, copy the
\* syscall number, trap, death; a dead process has taken exactly these.
C3_StrictOrder ==
    /\ IsPrefix(events, Canon)
    /\ (Trapped => mainReturned)
    /\ (pc = "dead" => events = Canon)
    /\ (pc = "kernel" => events = SubSeq(Canon, 1, 6))

C3_Witness == events = Canon

\* C4: after the trap the only step is the kernel's destruction of the
\* process: no register changes, nothing but the death is logged, control
\* never resumes after the trap, and the dead state has no successor.
C4_TrapNeverReturns ==
    /\ [][Trapped => /\ pc' = "dead"
                     /\ UNCHANGED regs
                     /\ events' = Append(events, "death")]_vars
    /\ [][pc # "dead"]_vars
    /\ [](pc # "fell_off")

C4_Witness == pc = "dead" /\ Trapped /\ rax = MovL(Enc32(SYS_exit))

\* C5: _start is entered once, main is called exactly once and _start
\* resumes only after main returned; _start never returns to a caller.
C5_EntryRunsOnce ==
    /\ Occ("enter") <= 1
    /\ Occ("call_main") <= 1
    /\ (pc # "loaded" => Occ("enter") = 1)
    /\ (pc \notin {"loaded", "start"} => Occ("call_main") = 1)
    /\ (pc \in {"args", "call_exit", "syscall", "kernel", "dead"}
            => mainReturned /\ Occ("main_ret") = 1)
    /\ pc # "fell_off"

C5_Witness == pc = "dead" /\ Occ("enter") = 1 /\ Occ("call_main") = 1

\* C6: as long as main has not returned, call_exit has not been entered
\* and no trap has been issued; once main is known never to return,
\* nothing further happens.
C6_NoReturnNoExit ==
    /\ [](~mainReturned => Occ("pass_args") = 0 /\ Occ("trap") = 0
                           /\ pc \notin {"call_exit", "syscall", "kernel",
                                         "dead"})
    /\ [](pc = "hung" => ~mainReturned)
    /\ [][pc # "hung"]_vars

C6_Witness == pc = "hung" /\ ~mainReturned /\ Occ("trap") = 0

C8_SelectorIsSysExit ==
    Trapped => /\ rax = MovL(Enc32(SYS_exit))
               /\ Dec32(Lo32(rax)) = SYS_exit
               /\ argNum = SYS_exit
               /\ Dec32(Lo32(rdi)) = mainRet

C8_Witness == pc = "kernel" /\ mainRet = 42 /\ Dec32(Lo32(rax)) = SYS_exit

\* C9: whenever main returns, the trap is eventually issued and the process
\* eventually dies; the run has no loop: it takes at most seven steps.
C9_ReturnLeadsToDeath ==
    /\ (mainReturned ~> Trapped)
    /\ (mainReturned ~> (pc = "dead"))
    /\ [](Len(events) <= Len(Canon))

C9_Witness == pc = "dead" /\ mainReturned /\ Len(events) = Len(Canon)

\* the status the kernel reports for an int v: the low byte of its pattern
StatusOf(v) == Enc32(v)[1] % 256

\* C10: main's value is carried unmodified from its return to the trap
\* (in %eax, then in %edi), it is consumed by a single trap with the fixed
\* selector, and the final status is a function of main's value alone,
\* whatever the other register contents were.
C10_ConsumedOnceDeterministic ==
    /\ (pc = "args" => Dec32(Lo32(rax)) = mainRet)
    /\ (pc \in {"call_exit", "syscall", "kernel", "dead"}
            => /\ Dec32(Lo32(rdi)) = mainRet
               /\ argCode = mainRet
               /\ Dec32(Lo32(rsi)) = SYS_exit)
    /\ Occ("trap") <= 1
    /\ (pc = "dead" => exitStatus = StatusOf(mainRet))

C10_Witness == pc = "dead" /\ mainRet = 298 /\ exitStatus = 42
               /\ Hi32(entryRdi) = <<0, 0>>

====
